---- MODULE Spec2Model ----
(***************************************************************************)
(* Model of function/lambda_function.py: the HCP Packer webhook receiver   *)
(* that verifies a signed webhook, dispatches on eventAction and           *)
(* reconciles AMI state (tags, deprecation, deregistration, snapshots).    *)
(*                                                                         *)
(* Strings the code inspects character by character (image ids, snapshot   *)
(* descriptions, error codes) are sequences of string fragments; Str       *)
(* renders them.  The EC2 account (images, snapshots), the secret store,   *)
(* the token endpoint and the registry are the environment: every call     *)
(* into them is one step whose outcome is chosen among the outcomes the    *)
(* service can give in the current state.                                  *)
(***************************************************************************)
EXTENDS Integers, Sequences, FiniteSets, TLC

VARIABLES
    images,            \* EC2: image key -> [state, deprecated, tags]
    snapshots,         \* EC2: ids of the snapshots that exist
    now,               \* wall clock, seconds
    event,             \* the invocation's event: [headers, body]
    pc,                \* position of the invocation in the code
    deprecation_time,  \* revoke: local deprecation_time
    amis,              \* handler local: list returned by return_image_id
    i,                 \* handler local: index of the current ami in amis
    pending,           \* delete: snapshots returned by describe_snapshots, not yet deleted
    result,            \* handler local: result["actions"]
    response,          \* value returned by lambda_handler
    calls,             \* history: outbound calls of this invocation, in order
    started,           \* history: clock reading when the invocation began
    images0,           \* history: images when the invocation began
    snapshots0,        \* history: snapshots when the invocation began
    prev,              \* history: summary of the previous invocation
    invocations        \* number of invocations so far

vars == <<images, snapshots, now, event, pc, deprecation_time, amis, i, pending,
          result, response, calls, started, images0, snapshots0, prev, invocations>>

---------------------------------------------------------------------------
\* Bounds of the model

MaxInvocations == 2
MaxClock == 90

\* timedelta(minutes=1), in seconds
DeprecationOffset == 60

\* seconds that pass in one tick of the clock
Delays == {30}

---------------------------------------------------------------------------
\* Strings as sequences of fragments

RECURSIVE Str(_)
Str(s) == IF s = <<>> THEN "" ELSE Head(s) \o Str(Tail(s))

\* str.startswith
StartsWith(s, prefix) ==
    /\ Len(s) >= Len(prefix)
    /\ SubSeq(s, 1, Len(prefix)) = prefix

\* the EC2 description filter "*needle*": needle occurs in s
Contains(s, needle) ==
    \E k \in 0..(Len(s) - Len(needle)) : SubSeq(s, k + 1, k + Len(needle)) = needle

---------------------------------------------------------------------------
\* The EC2 account, the registry and the secret store the function talks to

ImageA == [image_id |-> <<"i", "1">>, region |-> "r1"]
ImageB == [image_id |-> <<"i", "1", "2">>, region |-> "r1"]
ImageC == [image_id |-> <<"i", "2">>, region |-> "r2"]
ImageG == [image_id |-> <<"g", "1">>, region |-> "r1"]

ImageKeys == {ImageA, ImageB, ImageC}

\* snapshot id -> region and description
SnapshotIds == <<"snap-1", "snap-2", "snap-3", "snap-4", "snap-5">>

SnapshotInfo(s) ==
    CASE s = "snap-1" -> [region |-> "r1", description |-> <<"x", "i", "1">>]
      [] s = "snap-2" -> [region |-> "r1", description |-> <<"i", "1", "2">>]
      [] s = "snap-3" -> [region |-> "r2", description |-> <<"i", "2", "x">>]
      [] s = "snap-4" -> [region |-> "r2", description |-> <<"i", "1">>]
      [] s = "snap-5" -> [region |-> "r1", description |-> <<"i", "2">>]

AllSnapshots == {SnapshotIds[k] : k \in 1..Len(SnapshotIds)}

NoTags == [k \in {} |-> ""]

InitialTags(key) == IF key = ImageA THEN [Name |-> "web"] ELSE NoTags

\* iteration id -> builds, as the registry (and a complete/delete payload) lists them
IterationIds == {"it0", "it1", "it2"}

Builds(it) ==
    CASE it = "it0" -> << [id |-> "b0", cloud_provider |-> "gcp", images |-> <<ImageG>>] >>
      [] it = "it1" -> << [id |-> "b1", cloud_provider |-> "aws", images |-> <<ImageB, ImageA>>],
                          [id |-> "b2", cloud_provider |-> "gcp", images |-> <<ImageG>>],
                          [id |-> "b3", cloud_provider |-> "aws", images |-> <<ImageC, ImageA>>] >>
      [] it = "it2" -> << [id |-> "b4", cloud_provider |-> "aws", images |-> <<>>] >>

SigningKey == "hmac-key"
OtherKey == "other-key"

\* error codes of botocore ClientError, as fragments; <<>> is success
NoError == <<>>
InvalidAMIIDNotFound == <<"InvalidAMIID", ".NotFound">>
InvalidAMIIDUnavailable == <<"InvalidAMIID", ".Unavailable">>
UnauthorizedOperation == <<"UnauthorizedOperation">>

\* outcomes EC2 can give to a call on an image: it succeeds on an available
\* image, reports an InvalidAMIID code on any other, and may always refuse
ImageState(key) == IF key \in DOMAIN images THEN images[key].state ELSE "absent"

ImageOutcomes(key) ==
    CASE ImageState(key) = "available" -> {NoError, UnauthorizedOperation}
      [] ImageState(key) = "deregistered" -> {InvalidAMIIDUnavailable, UnauthorizedOperation}
      [] OTHER -> {InvalidAMIIDNotFound, UnauthorizedOperation}

\* outcomes of a call that does not name an image
CallOutcomes == {NoError, UnauthorizedOperation}

\* HTTP status of the token endpoint and of the registry
HttpStatuses == {200, 403}

---------------------------------------------------------------------------
\* Events

Payload(it, withBuilds) ==
    LET base == [organization_id |-> "org", project_id |-> "proj",
                 bucket |-> [slug |-> "bucket"],
                 iteration |-> [id |-> it, fingerprint |-> "fp", version |-> "v1",
                                revocation_author |-> "alice",
                                revocation_message |-> "cve"]]
    IN  IF withBuilds THEN base @@ [builds |-> Builds(it)] ELSE base

\* payloads with the builds of the iteration, and one without the builds key
Payloads == {Payload(it, TRUE) : it \in IterationIds} \cup {Payload("it1", FALSE)}

EventActions == {"test", "complete", "revoke", "restore", "delete", "frobnicate"}

Bodies ==
    {[eventAction |-> a, eventPayload |-> p] : a \in EventActions, p \in Payloads}
    \cup {[eventAction |-> a] : a \in EventActions}
    \cup {[eventPayload |-> Payload("it1", TRUE)]}

\* hmac.new(secret, message, hashlib.sha512).hexdigest(), collision free
Hmac(secret, message) == <<"hmac-sha512", secret, message>>

SignatureHeader == "X-Hcp-Webhook-Signature"

ForgedBody == [eventAction |-> "test"]

\* no signature header, the right signature, one made with another key, and
\* the right signature of another body
Headers(body) ==
    {[h \in {} |-> <<>>]}
    \cup {SignatureHeader :> sig :
            sig \in {Hmac(SigningKey, body), Hmac(OtherKey, body), Hmac(SigningKey, ForgedBody)}}

Events == UNION {{[headers |-> h, body |-> b] : h \in Headers(b)} : b \in Bodies}

NoEvent == [headers |-> [h \in {} |-> <<>>], body |-> [f \in {} |-> ""]]

HasKey(d, k) == k \in DOMAIN d

---------------------------------------------------------------------------
\* Values the handlers build

PyInt(n) == [py_type |-> "int", value |-> n]
PyStr(n) == [py_type |-> "str", value |-> n]

Text(s) == [kind |-> "text", text |-> s, actions |-> <<>>]

\* json.dumps(result)
JsonDumps(actions) == [kind |-> "json", text |-> "", actions |-> actions]

Response(statusCode, body) == [statusCode |-> statusCode, body |-> body]

NoResponse == Response([py_type |-> "none", value |-> 0], Text(""))

\* str(e) of a botocore ClientError
ClientErrorText(code, operation) ==
    "An error occurred (" \o Str(code) \o ") when calling the " \o operation \o " operation"

KeyErrorText(key) == "'" \o key \o "'"

\* the except Exception arm of every handler
ErrorResponse(text) == Response(PyInt(500), Text("Error: " \o text))

NoAmisResponse == Response(PyInt(200), Text("No AMIs found in iteration."))

\* def verify()
verify == Response(PyStr(200), Text("Verification successful!"))

UnsupportedResponse(action) ==
    Response(PyInt(400), Text("Action " \o action \o " found in request is not supported."))

\* one element of result["actions"]
ActionResult(key, id, region, status, message) ==
    [key |-> key, id |-> id, region |-> region, status |-> status, message |-> message]

\* one outbound call, as recorded in the history
Call(service, op, target, region, outcome) ==
    [service |-> service, op |-> op, target |-> target, region |-> region,
     outcome |-> outcome, at |-> now]

\* def return_image_id(builds, provider)
RECURSIVE ImagesOf(_, _)
ImagesOf(build, images_) ==
    IF images_ = <<>> THEN <<>>
    ELSE << [id |-> Head(images_).image_id, region |-> Head(images_).region,
             build_id |-> build.id] >> \o ImagesOf(build, Tail(images_))

\* an extraction that forgets the provider filter
RECURSIVE return_image_id_any_provider(_, _)
return_image_id_any_provider(builds, provider) ==
    IF builds = <<>> THEN <<>>
    ELSE ImagesOf(Head(builds), Head(builds).images)
         \o return_image_id_any_provider(Tail(builds), provider)

RECURSIVE return_image_id(_, _)
return_image_id(builds, provider) ==
    IF builds = <<>> THEN <<>>
    ELSE (IF Head(builds).cloud_provider = provider
          THEN ImagesOf(Head(builds), Head(builds).images)
          ELSE <<>>) \o return_image_id(Tail(builds), provider)

KeyOf(ami) == [image_id |-> ami.id, region |-> ami.region]

---------------------------------------------------------------------------
\* EC2 tag operations

\* create_tags: the given tags are added, replacing values of existing keys
SetTags(old, new) ==
    [k \in (DOMAIN old) \cup (DOMAIN new) |-> IF k \in DOMAIN new THEN new[k] ELSE old[k]]

\* delete_tags: the given keys are removed; keys not present are ignored
RemoveTags(old, keys) == [k \in (DOMAIN old) \ keys |-> old[k]]

CompleteTags(body, ami) ==
    [HCPPackerBucket |-> body["eventPayload"]["bucket"]["slug"],
     HCPPackerIterationFingerprint |-> body["eventPayload"]["iteration"]["fingerprint"],
     HCPPackerIterationVersion |-> body["eventPayload"]["iteration"]["version"],
     HCPPackerBuildID |-> ami.build_id]

RevokeTags(body) ==
    [HCPPackerRevoked |-> "true",
     HCPPackerRevokedBy |-> body["eventPayload"]["iteration"]["revocation_author"],
     HCPPackerRevocationMessage |-> body["eventPayload"]["iteration"]["revocation_message"]]

\* a restore that removes only the marker tag
RestoreTagKeys_marker == {"HCPPackerRevoked"}

\* the keys restore passes to delete_tags
RestoreTagKeys == {"HCPPackerRevoked", "HCPPackerRevokedBy", "HCPPackerRevocationMessage"}

---------------------------------------------------------------------------
\* Initial state: no invocation yet; the images exist, except possibly ImageB

NoPrev == [action |-> "", iteration |-> "", success |-> FALSE, images |-> <<>>]

Init ==
    /\ images \in {[k \in ImageKeys |->
                      [state |-> IF k \in e THEN "available" ELSE "absent",
                       deprecated |-> FALSE,
                       tags |-> InitialTags(k)]] : e \in {ImageKeys, ImageKeys \ {ImageB}}}
    /\ snapshots = AllSnapshots
    /\ now = 0
    /\ event = NoEvent
    /\ pc = "idle"
    /\ deprecation_time = 0
    /\ amis = <<>>
    /\ i = 0
    /\ pending = <<>>
    /\ result = <<>>
    /\ response = NoResponse
    /\ calls = <<>>
    /\ started = 0
    /\ images0 = images
    /\ snapshots0 = AllSnapshots
    /\ prev = NoPrev
    /\ invocations = 0

cloud == <<images, snapshots>>
locals == <<deprecation_time, amis, i, pending, result>>
history == <<started, images0, snapshots0, prev, invocations>>

AllSuccess(actions) == \A k \in 1..Len(actions) : actions[k].status = "Success"

\* what is remembered of an invocation once the next one begins
Summary ==
    [action |-> IF HasKey(event.body, "eventAction") THEN event.body["eventAction"] ELSE "",
     iteration |-> IF HasKey(event.body, "eventPayload")
                   THEN event.body["eventPayload"]["iteration"]["id"] ELSE "",
     success |-> /\ pc = "done"
                 /\ response.statusCode = PyInt(200)
                 /\ response.body.kind = "json"
                 /\ AllSuccess(response.body.actions),
     images |-> images0]

---------------------------------------------------------------------------
\* lambda_handler

\* the runtime invokes lambda_handler(event, context)
lambda_handler ==
    /\ pc \in {"idle", "done", "crashed"}
    /\ invocations < MaxInvocations
    /\ \E e \in Events : event' = e
    /\ pc' = "signature"
    /\ deprecation_time' = 0
    /\ amis' = <<>>
    /\ i' = 0
    /\ pending' = <<>>
    /\ result' = <<>>
    /\ response' = NoResponse
    /\ calls' = <<>>
    /\ started' = now
    /\ images0' = images
    /\ snapshots0' = snapshots
    /\ prev' = IF pc = "idle" THEN prev ELSE Summary
    /\ invocations' = invocations + 1
    /\ UNCHANGED <<cloud, now>>

\* signature = event["headers"]["X-Hcp-Webhook-Signature"], except KeyError
signature_header ==
    /\ pc = "signature"
    /\ IF HasKey(event.headers, SignatureHeader)
       THEN /\ pc' = "verify_hmac"
            /\ UNCHANGED response
       ELSE /\ pc' = "done"
            /\ response' = Response(PyInt(403), Text("HMAC signature not provided."))
    /\ UNCHANGED <<cloud, now, event, locals, calls, history>>

\* def get_secrets(secret_arn): the value stored under the reference
get_secrets(secret_arn) ==
    CASE secret_arn = "HMAC_TOKEN_ARN" -> SigningKey
      [] secret_arn = "HCP_CREDENTIAL_ARN" -> "client-credentials"

\* a comparison that accepts every signature
compare_digest_always(a, b) == TRUE

\* hmac.compare_digest(a, b)
compare_digest(a, b) == a = b

\* if verify_hmac(event): ... else: 403.  A failing secret lookup is not caught.
verify_hmac ==
    /\ pc = "verify_hmac"
    /\ \E code \in CallOutcomes :
        /\ calls' = Append(calls, Call("secretsmanager", "get_secret_value",
                                      "HMAC_TOKEN_ARN", "", code))
        /\ IF code # NoError
           THEN /\ pc' = "crashed"
                /\ UNCHANGED response
           ELSE LET signature == event.headers[SignatureHeader]
                    secret == get_secrets("HMAC_TOKEN_ARN")
                    hash == Hmac(secret, event.body)
                IN  IF compare_digest(hash, signature)
                    THEN /\ pc' = "dispatch"
                         /\ UNCHANGED response
                    ELSE /\ pc' = "done"
                         /\ response' = Response(PyInt(403),
                                           Text("Unauthorized: HMAC signature mismatch."))
    /\ UNCHANGED <<cloud, now, event, locals, history>>

Handlers == {"complete", "revoke", "restore", "delete"}

\* match body["eventAction"]
dispatch ==
    /\ pc = "dispatch"
    /\ IF ~HasKey(event.body, "eventAction")
       THEN /\ pc' = "crashed"
            /\ UNCHANGED response
       ELSE LET action == event.body["eventAction"]
            IN  CASE action = "test" ->
                       /\ pc' = "done"
                       /\ response' = verify
                  [] action \in Handlers ->
                       /\ pc' = action
                       /\ UNCHANGED response
                  [] OTHER ->
                       /\ pc' = "done"
                       /\ response' = UnsupportedResponse(action)
    /\ UNCHANGED <<cloud, now, event, locals, calls, history>>

---------------------------------------------------------------------------
\* Steps shared by the four handlers

\* an except arm that reports the results gathered so far
Raise_partial(text) ==
    /\ pc' = "done"
    /\ response' = Response(PyInt(500), JsonDumps(result))

\* except Exception as e: return {"statusCode": 500, "body": f"Error: {str(e)}"}
Raise(text) ==
    /\ pc' = "done"
    /\ response' = ErrorResponse(text)

\* the end of the loop body for amis[i]: the next ami, or the 200 response
\* built from the results after the last one
NextAmi(loop, actions) ==
    IF i = Len(amis)
    THEN /\ pc' = "done"
         /\ response' = Response(PyInt(200), JsonDumps(actions))
         /\ i' = i
    ELSE /\ pc' = loop
         /\ i' = i + 1
         /\ UNCHANGED response

\* amis = return_image_id(builds, "aws"); the short circuit on an empty list
Extracted(loop, builds) ==
    LET found == return_image_id(builds, "aws")
    IN  /\ amis' = found
        /\ IF Len(found) = 0
           THEN /\ pc' = "done"
                /\ response' = NoAmisResponse
                /\ i' = i
           ELSE /\ pc' = loop
                /\ i' = 1
                /\ UNCHANGED response

\* body["eventPayload"]["builds"], which raises KeyError on a missing key
PayloadBuilds(loop) ==
    IF ~HasKey(event.body, "eventPayload")
    THEN Raise(KeyErrorText("eventPayload")) /\ UNCHANGED <<amis, i>>
    ELSE IF ~HasKey(event.body["eventPayload"], "builds")
    THEN Raise(KeyErrorText("builds")) /\ UNCHANGED <<amis, i>>
    ELSE Extracted(loop, event.body["eventPayload"]["builds"])

\* a classification that knows a single error code
Skipped_exact(code) == code = InvalidAMIIDNotFound

\* a classification that treats every error as fatal
Skipped_never(code) == FALSE

\* the classification of a ClientError of a call on amis[i]
Skipped(code) == StartsWith(code, <<"InvalidAMIID">>)

AmiResult(ami, status, message) ==
    ActionResult("ami_id", Str(ami.id), ami.region, status, message)

---------------------------------------------------------------------------
\* def complete(body)

complete ==
    /\ pc = "complete"
    /\ PayloadBuilds("complete_create_tags")
    /\ UNCHANGED <<cloud, now, event, deprecation_time, pending, result, calls, history>>

complete_create_tags ==
    /\ pc = "complete_create_tags"
    /\ LET ami == amis[i]
           key == KeyOf(ami)
       IN  \E code \in ImageOutcomes(key) :
            /\ calls' = calls \o << Call("ec2", "client", "", ami.region, NoError),
                                    Call("ec2", "create_tags", Str(ami.id), ami.region, code) >>
            /\ CASE code = NoError ->
                      /\ images' = [images EXCEPT ![key].tags =
                                        SetTags(@, CompleteTags(event.body, ami))]
                      /\ result' = Append(result, AmiResult(ami, "Success", "AMI tags added"))
                      /\ NextAmi("complete_create_tags", result')
                 [] code # NoError /\ Skipped(code) ->
                      /\ result' = Append(result, AmiResult(ami, "Skipped", Str(code)))
                      /\ NextAmi("complete_create_tags", result')
                      /\ UNCHANGED images
                 [] OTHER ->
                      /\ Raise(ClientErrorText(code, "CreateTags"))
                      /\ UNCHANGED <<images, result, i>>
    /\ UNCHANGED <<snapshots, now, event, deprecation_time, amis, pending, history>>

---------------------------------------------------------------------------
\* def get_builds(body) and def hcp_auth(), used by revoke and restore

FirstCall(handler) ==
    IF handler = "revoke" THEN "revoke_enable_image_deprecation"
    ELSE "restore_disable_image_deprecation"

\* the four reads of body["eventPayload"][...] that open get_builds
get_builds ==
    /\ pc = "get_builds"
    /\ IF ~HasKey(event.body, "eventPayload")
       THEN Raise(KeyErrorText("eventPayload"))
       ELSE pc' = "hcp_auth" /\ UNCHANGED response
    /\ UNCHANGED <<cloud, now, event, locals, calls, history>>

\* credential = json.loads(get_secrets(os.environ.get("HCP_CREDENTIAL_ARN")))
hcp_auth ==
    /\ pc = "hcp_auth"
    /\ \E code \in CallOutcomes :
        /\ calls' = Append(calls, Call("secretsmanager", "get_secret_value",
                                      "HCP_CREDENTIAL_ARN", "", code))
        /\ IF code # NoError
           THEN Raise(ClientErrorText(code, "GetSecretValue"))
           ELSE pc' = "hcp_auth_token" /\ UNCHANGED response
    /\ UNCHANGED <<cloud, now, event, locals, history>>

\* the POST to the token endpoint
hcp_auth_token ==
    /\ pc = "hcp_auth_token"
    /\ \E status \in HttpStatuses :
        /\ calls' = Append(calls, Call("hcp", "oauth2/token", get_secrets("HCP_CREDENTIAL_ARN"),
                                      "", IF status = 200 THEN NoError ELSE <<ToString(status)>>))
        /\ IF status # 200
           THEN Raise("Failed to get HCP access token: " \o ToString(status))
           ELSE pc' = "get_builds_request" /\ UNCHANGED response
    /\ UNCHANGED <<cloud, now, event, locals, history>>

\* the GET of the iteration, then return_image_id on its builds
get_builds_request ==
    /\ pc = "get_builds_request"
    /\ LET iteration_id == event.body["eventPayload"]["iteration"]["id"]
       IN  \E status \in HttpStatuses :
            /\ calls' = Append(calls, Call("hcp", "iteration", iteration_id, "",
                                          IF status = 200 THEN NoError ELSE <<ToString(status)>>))
            /\ IF status # 200
               THEN /\ Raise("Failed to get builds from iteration: " \o ToString(status))
                    /\ UNCHANGED <<amis, i>>
               ELSE Extracted(FirstCall(event.body["eventAction"]), Builds(iteration_id))
    /\ UNCHANGED <<cloud, now, event, deprecation_time, pending, result, history>>

---------------------------------------------------------------------------
\* def revoke(body)

\* deprecation_time = datetime.now(timezone.utc) + timedelta(minutes=1)
revoke ==
    /\ pc = "revoke"
    /\ deprecation_time' = now + DeprecationOffset
    /\ pc' = "get_builds"
    /\ UNCHANGED <<cloud, now, event, amis, i, pending, result, response, calls, history>>

InvalidParameterValue == <<"InvalidParameterValue">>

\* EnableImageDeprecation won't accept a time in the past
EnableOutcomes(key, at) ==
    IF at <= now THEN {InvalidParameterValue} ELSE ImageOutcomes(key)

revoke_enable_image_deprecation ==
    /\ pc = "revoke_enable_image_deprecation"
    /\ LET ami == amis[i]
           key == KeyOf(ami)
       IN  \E code \in EnableOutcomes(key, deprecation_time) :
            /\ calls' = calls \o << Call("ec2", "client", "", ami.region, NoError),
                                    Call("ec2", "enable_image_deprecation", Str(ami.id),
                                         ami.region, code) >>
            /\ CASE code = NoError ->
                      /\ images' = [images EXCEPT ![key].deprecated = TRUE]
                      /\ pc' = "revoke_create_tags"
                      /\ UNCHANGED <<result, response, i>>
                 [] code # NoError /\ Skipped(code) ->
                      /\ result' = Append(result, AmiResult(ami, "Skipped", Str(code)))
                      /\ NextAmi("revoke_enable_image_deprecation", result')
                      /\ UNCHANGED images
                 [] OTHER ->
                      /\ Raise(ClientErrorText(code, "EnableImageDeprecation"))
                      /\ UNCHANGED <<images, result, i>>
    /\ UNCHANGED <<snapshots, now, event, deprecation_time, amis, pending, history>>

revoke_create_tags ==
    /\ pc = "revoke_create_tags"
    /\ LET ami == amis[i]
           key == KeyOf(ami)
       IN  \E code \in ImageOutcomes(key) :
            /\ calls' = Append(calls, Call("ec2", "create_tags", Str(ami.id), ami.region, code))
            /\ CASE code = NoError ->
                      /\ images' = [images EXCEPT ![key].tags = SetTags(@, RevokeTags(event.body))]
                      /\ result' = Append(result, AmiResult(ami, "Success",
                                        "AMI deprecation time set to " \o ToString(deprecation_time)))
                      /\ NextAmi("revoke_enable_image_deprecation", result')
                 [] code # NoError /\ Skipped(code) ->
                      /\ result' = Append(result, AmiResult(ami, "Skipped", Str(code)))
                      /\ NextAmi("revoke_enable_image_deprecation", result')
                      /\ UNCHANGED images
                 [] OTHER ->
                      /\ Raise(ClientErrorText(code, "CreateTags"))
                      /\ UNCHANGED <<images, result, i>>
    /\ UNCHANGED <<snapshots, now, event, deprecation_time, amis, pending, history>>

---------------------------------------------------------------------------
\* def restore(body)

restore ==
    /\ pc = "restore"
    /\ pc' = "get_builds"
    /\ UNCHANGED <<cloud, now, event, locals, response, calls, history>>

restore_disable_image_deprecation ==
    /\ pc = "restore_disable_image_deprecation"
    /\ LET ami == amis[i]
           key == KeyOf(ami)
       IN  \E code \in ImageOutcomes(key) :
            /\ calls' = calls \o << Call("ec2", "client", "", ami.region, NoError),
                                    Call("ec2", "disable_image_deprecation", Str(ami.id),
                                         ami.region, code) >>
            /\ CASE code = NoError ->
                      /\ images' = [images EXCEPT ![key].deprecated = FALSE]
                      /\ pc' = "restore_delete_tags"
                      /\ UNCHANGED <<result, response, i>>
                 [] code # NoError /\ Skipped(code) ->
                      /\ result' = Append(result, AmiResult(ami, "Skipped", Str(code)))
                      /\ NextAmi("restore_disable_image_deprecation", result')
                      /\ UNCHANGED images
                 [] OTHER ->
                      /\ Raise(ClientErrorText(code, "DisableImageDeprecation"))
                      /\ UNCHANGED <<images, result, i>>
    /\ UNCHANGED <<snapshots, now, event, deprecation_time, amis, pending, history>>

restore_delete_tags ==
    /\ pc = "restore_delete_tags"
    /\ LET ami == amis[i]
           key == KeyOf(ami)
       IN  \E code \in ImageOutcomes(key) :
            /\ calls' = Append(calls, Call("ec2", "delete_tags", Str(ami.id), ami.region, code))
            /\ CASE code = NoError ->
                      /\ images' = [images EXCEPT ![key].tags = RemoveTags(@, RestoreTagKeys)]
                      /\ result' = Append(result, AmiResult(ami, "Success", "AMI deprecation cleared"))
                      /\ NextAmi("restore_disable_image_deprecation", result')
                 [] code # NoError /\ Skipped(code) ->
                      /\ result' = Append(result, AmiResult(ami, "Skipped", Str(code)))
                      /\ NextAmi("restore_disable_image_deprecation", result')
                      /\ UNCHANGED images
                 [] OTHER ->
                      /\ Raise(ClientErrorText(code, "DeleteTags"))
                      /\ UNCHANGED <<images, result, i>>
    /\ UNCHANGED <<snapshots, now, event, deprecation_time, amis, pending, history>>

---------------------------------------------------------------------------
\* def delete(body)

delete ==
    /\ pc = "delete"
    /\ PayloadBuilds("delete_deregister_image")
    /\ UNCHANGED <<cloud, now, event, deprecation_time, pending, result, calls, history>>

delete_deregister_image ==
    /\ pc = "delete_deregister_image"
    /\ LET ami == amis[i]
           key == KeyOf(ami)
       IN  \E code \in ImageOutcomes(key) :
            /\ calls' = calls \o << Call("ec2", "client", "", ami.region, NoError),
                                    Call("ec2", "deregister_image", Str(ami.id), ami.region, code) >>
            /\ CASE code = NoError ->
                      /\ images' = [images EXCEPT ![key].state = "deregistered"]
                      /\ result' = Append(result, AmiResult(ami, "Success", "AMI deregistered"))
                      /\ pc' = "delete_describe_snapshots"
                      /\ UNCHANGED response
                 [] code # NoError /\ Skipped(code) ->
                      /\ result' = Append(result, AmiResult(ami, "Skipped", Str(code)))
                      /\ pc' = "delete_describe_snapshots"
                      /\ UNCHANGED <<images, response>>
                 [] OTHER ->
                      /\ Raise(ClientErrorText(code, "DeregisterImage"))
                      /\ UNCHANGED <<images, result>>
    /\ UNCHANGED <<snapshots, now, event, deprecation_time, amis, i, pending, history>>

\* a lookup that is not scoped to the image's region
describe_snapshots_any_region(region, ami_id) ==
    SelectSeq(SnapshotIds,
              LAMBDA s : /\ s \in snapshots
                         /\ Contains(SnapshotInfo(s).description, ami_id))

\* describe_snapshots(Filters=[description = *ami_id*]) on the region's client:
\* the region's existing snapshots whose description contains ami_id
describe_snapshots(region, ami_id) ==
    SelectSeq(SnapshotIds,
              LAMBDA s : /\ s \in snapshots
                         /\ SnapshotInfo(s).region = region
                         /\ Contains(SnapshotInfo(s).description, ami_id))

delete_describe_snapshots ==
    /\ pc = "delete_describe_snapshots"
    /\ LET ami == amis[i]
       IN  \E code \in CallOutcomes :
            /\ calls' = Append(calls, Call("ec2", "describe_snapshots", Str(ami.id),
                                          ami.region, code))
            /\ IF code # NoError
               THEN /\ Raise(ClientErrorText(code, "DescribeSnapshots"))
                    /\ UNCHANGED <<pending, i>>
               ELSE /\ pending' = describe_snapshots(ami.region, ami.id)
                    /\ IF pending' = <<>>
                       THEN NextAmi("delete_deregister_image", result)
                       ELSE /\ pc' = "delete_delete_snapshot"
                            /\ UNCHANGED <<response, i>>
    /\ UNCHANGED <<cloud, now, event, deprecation_time, amis, result, history>>

delete_delete_snapshot ==
    /\ pc = "delete_delete_snapshot"
    /\ LET ami == amis[i]
           snapshot == Head(pending)
       IN  \E code \in CallOutcomes :
            /\ calls' = Append(calls, Call("ec2", "delete_snapshot", snapshot, ami.region, code))
            /\ IF code # NoError
               THEN /\ Raise(ClientErrorText(code, "DeleteSnapshot"))
                    /\ UNCHANGED <<snapshots, pending, result, i>>
               ELSE /\ snapshots' = snapshots \ {snapshot}
                    /\ pending' = Tail(pending)
                    /\ result' = Append(result,
                                    ActionResult("snapshot_id", snapshot, ami.region, "Success",
                                                 "Snapshot for AMI " \o Str(ami.id) \o " deleted"))
                    /\ IF pending' = <<>>
                       THEN NextAmi("delete_deregister_image", result')
                       ELSE /\ pc' = "delete_delete_snapshot"
                            /\ UNCHANGED <<response, i>>
    /\ UNCHANGED <<images, now, event, deprecation_time, amis, history>>

---------------------------------------------------------------------------
\* Time passes while an invocation runs

Running == pc \notin {"idle", "done", "crashed"}

Tick ==
    /\ Running
    /\ \E d \in Delays :
        /\ now + d <= MaxClock
        /\ now' = now + d
    /\ UNCHANGED <<cloud, event, pc, locals, response, calls, history>>

---------------------------------------------------------------------------
\* Specifications

Next ==
    \/ lambda_handler
    \/ signature_header
    \/ verify_hmac
    \/ dispatch
    \/ complete
    \/ complete_create_tags
    \/ get_builds
    \/ hcp_auth
    \/ hcp_auth_token
    \/ get_builds_request
    \/ revoke
    \/ revoke_enable_image_deprecation
    \/ revoke_create_tags
    \/ restore
    \/ restore_disable_image_deprecation
    \/ restore_delete_tags
    \/ delete
    \/ delete_deregister_image
    \/ delete_describe_snapshots
    \/ delete_delete_snapshot

\* the handler with the clock standing still
Spec == Init /\ [][Next]_vars

NextClock == Next \/ Tick

\* the handler with time passing between its steps
SpecClock == Init /\ [][NextClock]_vars

---------------------------------------------------------------------------
\* Vocabulary of the properties

Done == pc = "done"

HasAction == HasKey(event.body, "eventAction")
Action == IF HasAction THEN event.body["eventAction"] ELSE ""

\* the header carries the hex HMAC-SHA512 of the body under the signing key
SignatureValid ==
    /\ HasKey(event.headers, SignatureHeader)
    /\ event.headers[SignatureHeader] = Hmac(SigningKey, event.body)

\* the lookup of the signing key has been made and has succeeded
KeyResolved ==
    /\ Len(calls) >= 1
    /\ calls[1].target = "HMAC_TOKEN_ARN"
    /\ calls[1].outcome = NoError

\* the lookup of the signing key has failed
KeyUnresolved ==
    /\ Len(calls) >= 1
    /\ calls[1].target = "HMAC_TOKEN_ARN"
    /\ calls[1].outcome # NoError

CallIndexes == 1..Len(calls)

Ec2Calls == {k \in CallIndexes : calls[k].service = "ec2"}
HcpCalls == {k \in CallIndexes : calls[k].service = "hcp"}

\* lambda_handler has passed the match statement
Dispatched == KeyResolved /\ pc \notin {"idle", "signature", "verify_hmac", "dispatch"}

---------------------------------------------------------------------------
\* C1: when the signature header is absent or differs from the HMAC of the
\* body under the resolved signing key, the invocation answers 403 and makes
\* no call to the token endpoint, the registry or EC2; the only call it can
\* have made is the lookup of the signing key.
C1_UnverifiedIs403 ==
    (pc # "idle" /\ ~SignatureValid) =>
        /\ Ec2Calls = {} /\ HcpCalls = {}
        /\ \A k \in CallIndexes : k = 1 /\ calls[k].target = "HMAC_TOKEN_ARN"
        /\ pc \in {"signature", "verify_hmac", "done", "crashed"}
        /\ pc = "crashed" => KeyUnresolved
        /\ Done => response.statusCode = PyInt(403)

\* a request signed for another body has been refused
C1_Witness ==
    /\ Done
    /\ HasKey(event.headers, SignatureHeader)
    /\ event.headers[SignatureHeader] = Hmac(SigningKey, ForgedBody)
    /\ event.body # ForgedBody
    /\ Action = "delete"
    /\ KeyResolved
    /\ response = Response(PyInt(403), Text("Unauthorized: HMAC signature mismatch."))

KnownActions == {"test", "complete", "revoke", "restore", "delete"}

\* C2: a correctly signed request whose eventAction is missing or is not one
\* of the five known actions ends with a 400 response, for an unknown value
\* X with the body "Action X found in request is not supported.", and
\* without any EC2 call.
C2_UnknownActionIs400 ==
    (SignatureValid /\ Dispatched /\ Action \notin KnownActions) =>
        /\ Done
        /\ response.statusCode = PyInt(400)
        /\ HasAction => response.body =
               Text("Action " \o Action \o " found in request is not supported.")
        /\ Ec2Calls = {}

\* C3: a correctly signed test request is answered with the integer
\* statusCode 200 and the body "Verification successful!", whatever the
\* payload, and with no call besides the lookup of the signing key.
C3_TestIs200 ==
    (SignatureValid /\ Dispatched /\ Action = "test") =>
        /\ Done
        /\ response = Response(PyInt(200), Text("Verification successful!"))
        /\ Len(calls) = 1

---------------------------------------------------------------------------
\* Vocabulary of the handler properties

EventPayload == event.body["eventPayload"]

\* the builds the handler extracts from: the payload's for complete and
\* delete, the registry's for revoke and restore
SourceBuilds ==
    IF Action \in {"complete", "delete"}
    THEN EventPayload["builds"]
    ELSE Builds(EventPayload["iteration"]["id"])

\* the handler has obtained its builds and extracted the image list
ExtractionDone ==
    /\ SignatureValid
    /\ Dispatched
    /\ Action \in Handlers
    /\ HasKey(event.body, "eventPayload")
    /\ IF Action \in {"complete", "delete"}
       THEN HasKey(EventPayload, "builds") /\ pc # Action
       ELSE \E k \in CallIndexes : calls[k].op = "iteration" /\ calls[k].outcome = NoError

\* no build is for aws, or the aws builds carry no images
NoAwsImages(builds) ==
    \A k \in 1..Len(builds) : builds[k].cloud_provider = "aws" => builds[k].images = <<>>

\* an error code that begins with InvalidAMIID
IsInvalidAmi(code) == code # <<>> /\ Head(code) = "InvalidAMIID"

\* the position in amis of the image the EC2 call calls[k] belongs to: each
\* image's calls begin with the opening of its region's client
AmiOf(k) == Cardinality({j \in 1..k : calls[j].op = "client"})

AmiResults(actions) == SelectSeq(actions, LAMBDA a : a.key = "ami_id")

\* C4 as claimed: with an empty extracted image list, each handler answers
\* 200 "No AMIs found in artifact version." and opens no EC2 client.
C4_EmptyListArtifactVersion ==
    (ExtractionDone /\ NoAwsImages(SourceBuilds)) =>
        /\ Done
        /\ response = Response(PyInt(200), Text("No AMIs found in artifact version."))
        /\ Ec2Calls = {}

\* C4 (amended): with an empty extracted image list (no aws build, or aws
\* builds without images), each of complete, revoke, restore and delete
\* answers 200 "No AMIs found in iteration.", opens no EC2 client and issues
\* no EC2 call.
C4_EmptyListShortCircuit ==
    (ExtractionDone /\ NoAwsImages(SourceBuilds)) =>
        /\ Done
        /\ response = Response(PyInt(200), Text("No AMIs found in iteration."))
        /\ Ec2Calls = {}

\* revoke has fetched an iteration whose aws build has no images
C4_Witness ==
    /\ ExtractionDone
    /\ Action = "revoke"
    /\ EventPayload["iteration"]["id"] = "it2"
    /\ Done
    /\ Len(calls) = 4

\* C5: when the only errors EC2 reports are InvalidAMIID codes, each handler
\* answers 200 with exactly one AMI result per extracted image, in extraction
\* order with duplicates kept: Skipped with the error code as message for the
\* images that met the error, Success for the others.
C5_SkippedDoesNotStop ==
    (/\ ExtractionDone
     /\ Done
     /\ ~NoAwsImages(SourceBuilds)
     /\ \A k \in CallIndexes : calls[k].outcome = NoError \/ IsInvalidAmi(calls[k].outcome)) =>
        /\ response.statusCode = PyInt(200)
        /\ response.body.kind = "json"
        /\ LET r == AmiResults(response.body.actions)
           IN  /\ Len(r) = Len(amis)
               /\ EventPayload["iteration"]["id"] = "it1" =>
                    [n \in 1..Len(r) |-> <<r[n].id, r[n].region>>] =
                        << <<"i12", "r1">>, <<"i1", "r1">>, <<"i2", "r2">>, <<"i1", "r1">> >>
               /\ \A n \in 1..Len(r) :
                    /\ r[n].id = Str(amis[n].id)
                    /\ r[n].region = amis[n].region
                    /\ LET bad == {k \in Ec2Calls : AmiOf(k) = n /\ calls[k].outcome # NoError}
                       IN  IF bad = {}
                           THEN r[n].status = "Success"
                           ELSE /\ r[n].status = "Skipped"
                                /\ \A k \in bad : r[n].message = Str(calls[k].outcome)

\* the first image was skipped and later ones succeeded
C5_Witness ==
    /\ Done
    /\ Action = "revoke"
    /\ response.statusCode = PyInt(200)
    /\ Len(response.body.actions) = 4
    /\ response.body.actions[1].status = "Skipped"
    /\ response.body.actions[1].message = "InvalidAMIID.NotFound"
    /\ \A n \in 2..4 : response.body.actions[n].status = "Success"

OperationName(op) ==
    CASE op = "create_tags" -> "CreateTags"
      [] op = "delete_tags" -> "DeleteTags"
      [] op = "enable_image_deprecation" -> "EnableImageDeprecation"
      [] op = "disable_image_deprecation" -> "DisableImageDeprecation"
      [] op = "deregister_image" -> "DeregisterImage"
      [] op = "describe_snapshots" -> "DescribeSnapshots"
      [] op = "delete_snapshot" -> "DeleteSnapshot"
      [] op = "get_secret_value" -> "GetSecretValue"
      [] OTHER -> op

\* the text of the exception a failed call raises
ErrorTextOf(c) ==
    CASE c.op = "oauth2/token" -> "Failed to get HCP access token: " \o Str(c.outcome)
      [] c.op = "iteration" -> "Failed to get builds from iteration: " \o Str(c.outcome)
      [] OTHER -> "An error occurred (" \o Str(c.outcome) \o ") when calling the "
                  \o OperationName(c.op) \o " operation"

ImageNamed(id, region) == CHOOSE key \in ImageKeys : Str(key.image_id) = id /\ key.region = region

\* the effect of the successful EC2 call c is in place
InEffect(c) ==
    CASE c.op = "create_tags" /\ Action = "complete" ->
            "HCPPackerBuildID" \in DOMAIN images[ImageNamed(c.target, c.region)].tags
      [] c.op = "create_tags" /\ Action = "revoke" ->
            "HCPPackerRevoked" \in DOMAIN images[ImageNamed(c.target, c.region)].tags
      [] c.op = "enable_image_deprecation" ->
            images[ImageNamed(c.target, c.region)].deprecated
      [] c.op = "disable_image_deprecation" ->
            ~images[ImageNamed(c.target, c.region)].deprecated
      [] c.op = "delete_tags" ->
            "HCPPackerRevoked" \notin DOMAIN images[ImageNamed(c.target, c.region)].tags
      [] c.op = "deregister_image" ->
            images[ImageNamed(c.target, c.region)].state = "deregistered"
      [] c.op = "delete_snapshot" -> c.target \notin snapshots
      [] OTHER -> TRUE

\* C6: in a handler, a call to EC2, the token endpoint or the registry that
\* fails with anything but an InvalidAMIID code is the invocation's last
\* call; the response is 500 with the error text, carries none of the
\* results gathered for earlier images, and the earlier successful calls
\* remain in effect.
C6_OtherFailureAborts ==
    \A k \in CallIndexes :
        (k > 1 /\ calls[k].outcome # NoError /\ ~IsInvalidAmi(calls[k].outcome)) =>
            /\ k = Len(calls)
            /\ Done
            /\ response.statusCode = PyInt(500)
            /\ response.body.kind = "text"
            /\ response.body.text = "Error: " \o ErrorTextOf(calls[k])
            /\ response.body.actions = <<>>
            /\ \A j \in 1..(k - 1) :
                (calls[j].service = "ec2" /\ calls[j].outcome = NoError) => InEffect(calls[j])

\* delete failed on a later image after it had deregistered an earlier one
C6_Witness ==
    /\ Done
    /\ Action = "delete"
    /\ response.statusCode = PyInt(500)
    /\ Len(result) >= 2
    /\ calls[Len(calls)].op = "deregister_image"
    /\ calls[Len(calls)].outcome = UnauthorizedOperation
    /\ \E j \in CallIndexes : calls[j].op = "delete_snapshot" /\ calls[j].outcome = NoError

---------------------------------------------------------------------------
\* Properties of delete

\* the snapshot's description contains the image's id, in the image's region
References(s, ami) ==
    /\ SnapshotInfo(s).region = ami.region
    /\ Contains(SnapshotInfo(s).description, ami.id)

DeleteReturned200 ==
    /\ Done
    /\ Action = "delete"
    /\ ExtractionDone
    /\ response.statusCode = PyInt(200)
    /\ response.body.kind = "json"

\* calls[k] is the deregistration of an image and calls[k + 1] the snapshot
\* lookup for the same image
LookupFollows(k) ==
    /\ k < Len(calls)
    /\ calls[k + 1].op = "describe_snapshots"
    /\ calls[k + 1].target = calls[k].target
    /\ calls[k + 1].region = calls[k].region

\* C7 as claimed: in delete, a failed deregister_image call is always
\* followed by the snapshot lookup for the same image.
C7_AnyFailureStillLooksUp ==
    \A k \in CallIndexes :
        (calls[k].op = "deregister_image" /\ calls[k].outcome # NoError) =>
            \/ LookupFollows(k)
            \/ pc = "delete_describe_snapshots" /\ k = Len(calls)

\* C7 (amended): in delete, a deregister_image call that fails with an
\* InvalidAMIID code is followed by the snapshot lookup for the same image,
\* and when no later call fails every snapshot the lookups matched is
\* deleted; a deregister_image call that fails with any other error ends the
\* invocation with 500 before the lookup; every snapshot lookup directly
\* follows the deregistration attempt for the same image.
C7_InvalidAmiStillLooksUp ==
    /\ \A k \in CallIndexes :
        (calls[k].op = "deregister_image" /\ IsInvalidAmi(calls[k].outcome)) =>
            \/ LookupFollows(k)
            \/ pc = "delete_describe_snapshots" /\ k = Len(calls)
    /\ \A k \in CallIndexes :
        (/\ calls[k].op = "deregister_image"
         /\ calls[k].outcome # NoError
         /\ ~IsInvalidAmi(calls[k].outcome)) =>
            /\ k = Len(calls)
            /\ Done
            /\ response.statusCode = PyInt(500)
    /\ \A k \in CallIndexes :
        calls[k].op = "describe_snapshots" =>
            /\ k > 1
            /\ calls[k - 1].op = "deregister_image"
            /\ calls[k - 1].target = calls[k].target
            /\ calls[k - 1].region = calls[k].region
    /\ DeleteReturned200 =>
        \A n \in 1..Len(amis) : \A s \in snapshots : ~References(s, amis[n])

\* delete skipped an image that does not exist and then deleted a snapshot
\* that references it
C7_Witness ==
    /\ DeleteReturned200
    /\ \E k \in CallIndexes :
        /\ calls[k].op = "deregister_image"
        /\ IsInvalidAmi(calls[k].outcome)
        /\ k + 2 <= Len(calls)
        /\ calls[k + 2].op = "delete_snapshot"
        /\ calls[k + 2].outcome = NoError

DeletedSnapshots == {calls[k].target : k \in {j \in CallIndexes : calls[j].op = "delete_snapshot"}}

\* C8: a snapshot is only ever deleted when its description contains the id
\* of an image the handler has reached, in that image's region; when delete
\* returns 200, the snapshots for which delete_snapshot was called are
\* exactly those that reference an extracted image, each was called for once
\* and each has exactly one Success result carrying its id.
C8_SnapshotsBySubstring ==
    /\ \A k \in CallIndexes :
        calls[k].op = "delete_snapshot" =>
            \E n \in 1..i : References(calls[k].target, amis[n])
    /\ DeleteReturned200 =>
        \A s \in snapshots0 :
            LET referenced == \E n \in 1..Len(amis) : References(s, amis[n])
                deletions == {k \in CallIndexes :
                                calls[k].op = "delete_snapshot" /\ calls[k].target = s}
                results == SelectSeq(response.body.actions,
                                     LAMBDA a : a.key = "snapshot_id" /\ a.id = s)
            IN  /\ (deletions # {}) <=> referenced
                /\ Cardinality(deletions) = IF referenced THEN 1 ELSE 0
                /\ Len(results) = IF referenced THEN 1 ELSE 0
                /\ \A n \in 1..Len(results) : results[n].status = "Success"
                /\ (s \in snapshots) <=> ~referenced

\* delete removed the three referencing snapshots and left the two that only
\* mention an image id of the other region
C8_Witness ==
    /\ DeleteReturned200
    /\ snapshots0 = AllSnapshots
    /\ DeletedSnapshots = {"snap-1", "snap-2", "snap-3"}
    /\ snapshots = {"snap-4", "snap-5"}

---------------------------------------------------------------------------
\* Properties of revoke and restore

EnableCalls == {k \in CallIndexes : calls[k].op = "enable_image_deprecation"}

\* C9: in revoke the deprecation timestamp is fixed once, 60 seconds after
\* the handler started and before the registry is asked for the builds, and
\* it is still strictly in the future at every enable_image_deprecation
\* call, however long the calls before it took.
C9_DeprecationTimeInFuture ==
    (SignatureValid /\ Action = "revoke" /\ Dispatched /\ pc # "revoke") =>
        /\ deprecation_time >= started + DeprecationOffset
        /\ \A k \in HcpCalls : deprecation_time <= calls[k].at + DeprecationOffset
        /\ \A k \in EnableCalls : deprecation_time > calls[k].at

\* the tags revoke adds
RevokeTagNames == {"HCPPackerRevoked", "HCPPackerRevokedBy", "HCPPackerRevocationMessage"}

OtherTags(tags) == [t \in (DOMAIN tags) \ RevokeTagNames |-> tags[t]]

RestoreReturned200 ==
    /\ Done
    /\ Action = "restore"
    /\ ExtractionDone
    /\ response.statusCode = PyInt(200)
    /\ response.body.kind = "json"

\* this restore, all Success, directly follows a revoke of the same
\* iteration that was all Success
RestoreAfterRevoke ==
    /\ RestoreReturned200
    /\ AllSuccess(response.body.actions)
    /\ prev.action = "revoke"
    /\ prev.success
    /\ prev.iteration = EventPayload["iteration"]["id"]

\* C10: after a revoke and a restore of the same iteration that both return
\* 200 with only Success results, every image has deprecation disabled,
\* carries none of the three revocation tags and has its other tags as
\* before the revoke; a restore that returns 200 reports Success for every
\* existing image and leaves the tags of images without revocation tags
\* unchanged; in both handlers a tag call directly follows the successful
\* deprecation call for the same image.
C10_RestoreUndoesRevoke ==
    /\ RestoreAfterRevoke =>
        \A n \in 1..Len(amis) :
            LET key == KeyOf(amis[n])
            IN  /\ ~images[key].deprecated
                /\ (DOMAIN images[key].tags) \cap RevokeTagNames = {}
                /\ OtherTags(images[key].tags) = OtherTags(prev.images[key].tags)
    /\ RestoreReturned200 =>
        \A n \in 1..Len(amis) :
            LET key == KeyOf(amis[n])
            IN  /\ images0[key].state = "available" =>
                    /\ response.body.actions[n].status = "Success"
                    /\ ~images[key].deprecated
                /\ (DOMAIN images0[key].tags) \cap RevokeTagNames = {} =>
                    images[key].tags = images0[key].tags
    /\ Action \in {"revoke", "restore"} =>
        \A k \in CallIndexes :
            calls[k].op \in {"create_tags", "delete_tags"} =>
                /\ k > 1
                /\ calls[k - 1].op = IF Action = "revoke" THEN "enable_image_deprecation"
                                     ELSE "disable_image_deprecation"
                /\ calls[k - 1].target = calls[k].target
                /\ calls[k - 1].region = calls[k].region
                /\ calls[k - 1].outcome = NoError

\* a restore of the four images of an iteration that the previous invocation
\* had revoked
C10_Witness ==
    /\ RestoreAfterRevoke
    /\ Len(amis) = 4
    /\ \A n \in 1..Len(amis) : RevokeTagNames \subseteq DOMAIN images0[KeyOf(amis[n])].tags
    /\ images0[ImageA].deprecated
    /\ images[ImageA].tags = [Name |-> "web"]

====
